---- MODULE Spec2Model ----
(***************************************************************************)
(* A model of firedrake/preconditioners/assembled.py: the AssembledPC and  *)
(* ExplicitSchurPC preconditioner plugins, one instance driven through its *)
(* lifecycle hooks (initialize, update, apply, applyTranspose, view).      *)
(*                                                                         *)
(* The collaborators (allocate_matrix, create_assembly_callable, PETSc.PC, *)
(* PETSc.Options) are modelled by the objects they return and by a log of  *)
(* the calls a hook makes on them, in program order.                       *)
(*                                                                         *)
(* A second, independent part models the DirichletBC calls exercised by    *)
(* tests/test_bcs.py (homogenize, restore, set_value, solve).              *)
(***************************************************************************)
EXTENDS Naturals, Sequences, FiniteSets, TLC

VARIABLES
    cls,          \* the class of the instance (type(self))
    options,      \* the global PETSc.Options() database
    selfP,        \* self.P: <<>> when unset, else <<id of the matrix>>
    assemble_P,   \* self._assemble_P: <<>> when unset, else <<callable>>
    selfpc,       \* self.pc: <<>> when unset, else <<inner solver>>
    mats,         \* the matrices still referenced: id -> matrix
    ninit,        \* number of initialize calls so far (names the objects made)
    last,         \* the hook invoked last, its arguments and its outcome
    calls,        \* the collaborator calls the last hook made, in order
    nfail,        \* number of collaborator failures so far
    linit,        \* outcome of the most recent initialize ("never": none yet)
    passed,       \* some initialize got past both validation checks
    completed,    \* some initialize ran to completion
    bc,           \* a DirichletBC (tests/test_bcs.py)
    f,            \* the Function the DirichletBC was built from
    u,            \* the solution of the last solve
    bclast        \* the last call made on the DirichletBC

pcvars == <<cls, options, selfP, assemble_P, selfpc, mats, ninit, nfail, last, calls, linit, passed, completed>>
bcvars == <<bc, f, u, bclast>>
vars == <<pcvars, bcvars>>

----------------------------------------------------------------------------
(* Bounds of the model *)

MaxInits == 2          \* initialize calls in one behaviour
MaxAssemblies == 2     \* assemblies into one matrix
MaxFailures == 1       \* collaborator calls that fail in one behaviour

----------------------------------------------------------------------------
(* The classes *)

\* UserAssembledPC and UserSchurPC stand for user subclasses that supply
\* form(self, pc, test, trial) and leave _prefix alone.
Classes == {"AssembledPC", "ExplicitSchurPC", "UserAssembledPC", "UserSchurPC"}

IsExplicitSchur(c) == c \in {"ExplicitSchurPC", "UserSchurPC"}

\* AssembledPC._prefix / ExplicitSchurPC._prefix
_prefix(c) == IF IsExplicitSchur(c) THEN "schur_" ELSE "assembled_"

----------------------------------------------------------------------------
(* The arguments of the hooks *)

\* Python contexts of matrix-free operators: two diagonal blocks and one
\* off-diagonal block.
NoContext == [a |-> "none", row_bcs |-> <<>>, on_diag |-> FALSE]
ctx00 == [a |-> "a00", row_bcs |-> <<"bc0">>, on_diag |-> TRUE]
ctx11 == [a |-> "a11", row_bcs |-> <<>>, on_diag |-> TRUE]
ctx01 == [a |-> "a01", row_bcs |-> <<"bc0">>, on_diag |-> FALSE]

\* An operator: its type, its python context (matrix-free operators only)
\* and the handles of its null space and transpose null space; 0 is the null
\* handle (nothing attached).
Mat(type, ctx, nullsp, tnullsp) ==
    [kind |-> "Mat", type |-> type, ctx |-> ctx, nullsp |-> nullsp, tnullsp |-> tnullsp]

\* The solver blocks a plugin may be attached to: the options prefix of the
\* outer PC and its operator P, matrix-free (type "python") or explicit.
Blocks ==
    { <<"", Mat("aij", NoContext, 1, 0)>>,
      <<"fieldsplit_0_", Mat("python", ctx00, 0, 0)>>,
      <<"fieldsplit_1_", Mat("python", ctx11, 1, 2)>>,
      <<"fieldsplit_1_", Mat("python", ctx01, 1, 2)>> }

\* The outer PC handed to every hook.
OuterPCs ==
    { [kind |-> "PC", type |-> ty, prefix |-> b[1], P |-> b[2], comm |-> "comm"] :
        ty \in {"python", "lu"}, b \in Blocks }

\* TestFunction(V) and TrialFunction(V): form arguments, not PCs.
TestFunction(V) == [kind |-> "Argument", number |-> 0, V |-> V]
TrialFunction(V) == [kind |-> "Argument", number |-> 1, V |-> V]

Vecs == {"v1", "v2"}
Viewers == {"None", "ascii"}

\* Where a collaborator may fail inside initialize ("none": nowhere).
FailPoints == {"none", "allocate_matrix", "create_assembly_callable",
               "_assemble_P", "setUp"}

\* The options database: mat_type is set under some of the prefixes the
\* model can derive and left unset under the others.
OptionDB ==
    { <<"assembled_mat_type", "baij">>,
      <<"fieldsplit_1_schur_mat_type", "dense">>,
      <<"fieldsplit_1_mat_type", "nest">>,
      <<"mat_type", "is">> }

\* PETSc.Options().getString(name, default)
getString(db, name, default) ==
    IF \E e \in db : e[1] = name
    THEN (CHOOSE e \in db : e[1] = name)[2]
    ELSE default

----------------------------------------------------------------------------
(* The collaborators *)

Call(fn, args) == [fn |-> fn, args |-> args]

\* firedrake.assemble.allocate_matrix: a fresh, empty matrix for the form.
\* builtFrom records the operator the allocating initialize was called on.
allocate_matrix(a, bcs, fcp, mat_type, options_prefix) ==
    [a |-> a, bcs |-> bcs, fcp |-> fcp, mat_type |-> mat_type,
     options_prefix |-> options_prefix,
     nullsp |-> 0, tnullsp |-> 0, nasm |-> 0, evaluated |-> TRUE,
     builtFrom |-> <<>>]

\* firedrake.assemble.create_assembly_callable: a thunk that assembles the
\* form into the tensor it was given.
create_assembly_callable(a, tensor, bcs, fcp, mat_type) ==
    [a |-> a, tensor |-> tensor, bcs |-> bcs, fcp |-> fcp, mat_type |-> mat_type]

\* Calling the thunk: one more assembly into its tensor, not yet evaluated.
RunAssembly(M, thunk) ==
    [M EXCEPT ![thunk.tensor].nasm = @ + 1, ![thunk.tensor].evaluated = FALSE]

\* Matrix.force_evaluation()
force_evaluation(M, id) == [M EXCEPT ![id].evaluated = TRUE]

\* PETSc.PC().create(comm)
PC_create(id, comm) ==
    [id |-> id, comm |-> comm, tabLevel |-> 0, parent |-> "none", prefix |-> "",
     Amat |-> <<>>, Pmat |-> <<>>, fromOptions |-> FALSE, setUp |-> FALSE,
     builtFrom |-> <<>>]

\* The matrices an instance still references (through self.P, the assembly
\* thunk's tensor and the inner solver's operators).
Live(S) ==
    (IF S.P = <<>> THEN {} ELSE {S.P[1]})
    \cup (IF S.assemble_P = <<>> THEN {} ELSE {S.assemble_P[1].tensor})
    \cup (IF S.pc = <<>> THEN {} ELSE {S.pc[1].Pmat[1]})

Collect(S) == [S EXCEPT !.mats = [i \in Live(S) |-> S.mats[i]]]

\* How a hook ends: the instance it leaves, the calls it made, the exception.
Raise(S, log, e) == [S |-> Collect(S), calls |-> log, exc |-> e]
Return(S, log) == [S |-> Collect(S), calls |-> log, exc |-> "none"]

----------------------------------------------------------------------------
(* The form hook *)

\* What a user subclass's form(self, pc, test, trial) returns: its own
\* approximating form and boundary conditions.
UserForm(c) ==
    IF c = "UserSchurPC" THEN <<"s_approx", <<"bc_s">>>> ELSE <<"a_user", <<>>>>

\* AssembledPC.form(self, test, trial, pc): the parameters in declared order.
\* pc.getOperators() needs pc to be a PC: any other object has no such
\* attribute.
AssembledPC_form(test, trial, pc) ==
    IF pc.kind # "PC" THEN [exc |-> "AttributeError", ret |-> <<>>]
    ELSE LET P == pc.P IN
         IF P.type # "python" THEN [exc |-> "AssertionError", ret |-> <<>>]
         ELSE LET context == P.ctx IN
              [exc |-> "none", ret |-> <<context.a, context.row_bcs>>]

\* Faulty variant: ExplicitSchurPC falls back on the operator's own form.
ExplicitSchurPC_form_inherited(pc, test, trial) == AssembledPC_form(test, trial, pc)

\* ExplicitSchurPC.form(self, pc, test, trial): abstract.
ExplicitSchurPC_form(pc, test, trial) ==
    [exc |-> "NotImplementedError", ret |-> <<>>]

\* A user subclass's override, declared as form(self, pc, test, trial).
Subclass_form(c, pc, test, trial) ==
    IF pc.kind # "PC" THEN [exc |-> "AttributeError", ret |-> <<>>]
    ELSE [exc |-> "none", ret |-> UserForm(c)]

\* self.form(arg1, arg2, arg3): method lookup on the class of the instance,
\* the arguments bound by position.
form(c, arg1, arg2, arg3) ==
    CASE c = "AssembledPC" -> AssembledPC_form(arg1, arg2, arg3)
      [] c = "ExplicitSchurPC" -> ExplicitSchurPC_form(arg1, arg2, arg3)
      [] OTHER -> Subclass_form(c, arg1, arg2, arg3)

----------------------------------------------------------------------------
(* AssembledPC.initialize *)

\* Faulty variant: the kind of the outer PC is not checked.
WrongKind_never(pc) == FALSE

\* pc.getType() != "python"
WrongKind(pc) == pc.type # "python"

\* Faulty variant: off-diagonal blocks are let through.
OffDiagonal_never(P) == FALSE

\* P.type == "python" and not P.getPythonContext().on_diag
OffDiagonal(P) == P.type = "python" /\ ~P.ctx.on_diag

\* Faulty variant: the class prefix comes first.
options_prefix_swapped(pc, c) == _prefix(c) \o pc.prefix

\* options_prefix = pc.getOptionsPrefix() + self._prefix
options_prefix(pc, c) == pc.prefix \o _prefix(c)

\* mat_type = PETSc.Options().getString(options_prefix + "mat_type", "aij")
mat_type(db, prefix) == getString(db, prefix \o "mat_type", "aij")

\* Faulty variant: the transpose null space is left behind.
TransferNullSpace_onlyNullSpace(m, P) == [m EXCEPT !.nullsp = P.nullsp]

\* Transfer nullspace over: the null space always, the transpose null space
\* when its handle is not null.
TransferNullSpace(m, P) ==
    [m EXCEPT !.nullsp = P.nullsp,
              !.tnullsp = IF P.tnullsp # 0 THEN P.tnullsp ELSE @]

NullSpaceCalls(id, P) ==
    <<Call("setNullSpace", <<id, P.nullsp>>)>>
    \o (IF P.tnullsp # 0 THEN <<Call("setTransposeNullSpace", <<id, P.tnullsp>>)>>
        ELSE <<>>)

\* The inner solver: created, nested under the outer PC, given the prefix
\* and the assembled matrix, configured and set up.
InnerPC(id, opc, prefix, Pmat, P) ==
    [PC_create(id, opc.comm) EXCEPT
        !.tabLevel = 1, !.parent = opc.kind, !.prefix = prefix,
        !.Amat = <<Pmat>>, !.Pmat = <<Pmat>>,
        !.fromOptions = TRUE, !.setUp = TRUE, !.builtFrom = <<P>>]

InnerPCCalls(id, prefix, Pmat) ==
    << Call("PC.create", <<id>>), Call("incrementTabLevel", <<id, 1>>),
       Call("setOptionsPrefix", <<id, prefix>>),
       Call("setOperators", <<id, Pmat, Pmat>>),
       Call("setFromOptions", <<id>>), Call("setUp", <<id>>) >>

\* Lines 49-76, once the form hook has returned (a, bcs): allocate, build the
\* thunk, assemble, transfer the null spaces, build the inner solver.  A
\* collaborator that fails leaves what was assigned before it.
Assemble(S, opc, P, a, bcs, fcp, mt, prefix, id, fail, log) ==
    LET l1 == log \o <<Call("allocate_matrix", <<a, bcs, fcp, mt, prefix>>)>>
        m0 == [allocate_matrix(a, bcs, fcp, mt, prefix) EXCEPT !.builtFrom = <<P>>]
        S1 == [S EXCEPT !.P = <<id>>,
                        !.mats = [i \in DOMAIN S.mats \cup {id} |->
                                     IF i = id THEN m0 ELSE S.mats[i]]]
        l2 == l1 \o <<Call("create_assembly_callable", <<a, id, bcs, fcp, mt>>)>>
        thunk == create_assembly_callable(a, S1.P[1], bcs, fcp, mt)
        S2 == [S1 EXCEPT !.assemble_P = <<thunk>>]
        l3 == l2 \o <<Call("_assemble_P", <<thunk.tensor>>)>>
        S3 == [S2 EXCEPT !.mats = force_evaluation(RunAssembly(S2.mats, thunk), S2.P[1])]
        l4 == l3 \o <<Call("force_evaluation", <<S2.P[1]>>)>>
        Pmat == S3.P[1]
        S4 == [S3 EXCEPT !.mats[Pmat] = TransferNullSpace(@, P)]
        l5 == l4 \o NullSpaceCalls(Pmat, P) \o InnerPCCalls(id, prefix, Pmat)
        S5 == [S4 EXCEPT !.pc = <<InnerPC(id, opc, prefix, Pmat, P)>>]
    IN  CASE fail = "allocate_matrix" -> Raise(S, l1, "ExternalError")
          [] fail = "create_assembly_callable" -> Raise(S1, l2, "ExternalError")
          [] fail = "_assemble_P" -> Raise(S2, l3, "ExternalError")
          [] fail = "setUp" -> Raise(S4, l5, "ExternalError")
          [] OTHER -> Return(S5, l5)

\* AssembledPC.initialize(self, pc), inherited by every class.  c is the class
\* of the instance, db the options database, id names the objects it makes.
initialize(S, c, db, pc, id, fail) ==
    LET P == pc.P
        l0 == <<Call("getOperators", <<>>)>>
    IN  IF WrongKind(pc) THEN Raise(S, l0, "ValueError")
        ELSE
        LET opc == pc
            fcp == "None"
            V == "V"
            test == TestFunction(V)
            trial == TrialFunction(V)
            l1 == l0 \o <<Call("get_appctx", <<>>), Call("get_function_space", <<>>)>>
        IN  IF OffDiagonal(P) THEN Raise(S, l1, "ValueError")
            ELSE
            LET prefix == options_prefix(pc, c)
                mt == mat_type(db, prefix)
                l2 == l1 \o <<Call("getString", <<prefix \o "mat_type", "aij">>)>>
                r == form(c, pc, test, trial)
                l3 == l2 \o <<Call("form", <<r.exc, r.ret>>)>>
            IN  IF r.exc # "none" THEN Raise(S, l3, r.exc)
                ELSE Assemble(S, opc, P, r.ret[1], r.ret[2], fcp, mt, prefix,
                              id, fail, l3)

----------------------------------------------------------------------------
(* The other hooks *)

\* Faulty variant: update replaces the inner solver.
update_rebuilds(S, fail) ==
    IF S.assemble_P = <<>> THEN Raise(S, <<>>, "AttributeError")
    ELSE Return([S EXCEPT !.mats = RunAssembly(S.mats, S.assemble_P[1]),
                          !.pc = IF S.pc = <<>> THEN <<>>
                                 ELSE <<[S.pc[1] EXCEPT !.id = @ + 1]>>],
                <<Call("_assemble_P", <<S.P[1]>>)>>)

\* Faulty variant: update does nothing when there is no thunk.
update_silent(S, fail) ==
    IF S.assemble_P = <<>> THEN Return(S, <<>>)
    ELSE Return([S EXCEPT !.mats = force_evaluation(
                              RunAssembly(S.mats, S.assemble_P[1]), S.P[1])],
                <<Call("_assemble_P", <<S.P[1]>>)>>)

\* AssembledPC.update(self, pc): run the thunk, then evaluate self.P.
update(S, fail) ==
    IF S.assemble_P = <<>> THEN Raise(S, <<>>, "AttributeError")
    ELSE
    LET thunk == S.assemble_P[1]
        l1 == <<Call("_assemble_P", <<thunk.tensor>>)>>
        S1 == [S EXCEPT !.mats = RunAssembly(S.mats, thunk)]
        S2 == [S1 EXCEPT !.mats = force_evaluation(S1.mats, S.P[1])]
    IN  IF fail THEN Raise(S, l1, "ExternalError")
        ELSE Return(S2, l1 \o <<Call("force_evaluation", <<S.P[1]>>)>>)

\* AssembledPC.apply(self, pc, x, y) and applyTranspose: op names which.
apply(S, op, x, y) ==
    IF S.pc = <<>> THEN Raise(S, <<>>, "AttributeError")
    ELSE Return(S, <<Call("PC." \o op, <<S.pc[1].id, x, y>>)>>)

\* AssembledPC.view(self, pc, viewer)
view(S, viewer) ==
    LET l0 == <<Call("PCBase.view", <<viewer>>)>>
    IN  IF S.pc # <<>>
        THEN IF viewer = "None" THEN Raise(S, l0, "AttributeError")
             ELSE Return(S, l0 \o << Call("printfASCII", <<"PC to apply inverse">>),
                                     Call("PC.view", <<S.pc[1].id, viewer>>) >>)
        ELSE Return(S, l0)

----------------------------------------------------------------------------
(* DirichletBC, as tests/test_bcs.py uses it: a boundary condition built   *)
(* from the Function f, which a solve of a == 0 imposes on all of u.       *)

MaxValue == 4          \* values 1..MaxValue may be given to set_value
FValue == 10           \* f.assign(10)
SetValue == 7          \* bc.set_value(7)

Values == (1..MaxValue) \cup {SetValue}

\* DirichletBC(V, f, 1): the value is the Function itself, kept as the
\* original value too.
DirichletBC(g) == [function_arg |-> g, original_arg |-> g]

\* Faulty variant: homogenize overwrites the original value too.
homogenize_forgets(b) ==
    [b EXCEPT !.function_arg = <<"Constant", 0>>, !.original_arg = <<"Constant", 0>>]

\* bc.homogenize(): the value becomes the constant 0.
homogenize(b) == [b EXCEPT !.function_arg = <<"Constant", 0>>]

\* bc.restore(): back to the original value.
restore(b) == [b EXCEPT !.function_arg = b.original_arg]

\* bc.set_value(val): val is the value, and the original value, from now on.
set_value(b, val) ==
    [b EXCEPT !.function_arg = <<"Constant", val>>,
              !.original_arg = <<"Constant", val>>]

\* The value a boundary condition imposes: that of the Function it refers
\* to, or its constant.
Imposed(b, fval) ==
    IF b.function_arg[1] = "Function" THEN fval ELSE b.function_arg[2]

\* solve(a == 0, u, bcs=[bc]): the Laplace problem takes the boundary value
\* everywhere.
solve(b, fval) == Imposed(b, fval)

----------------------------------------------------------------------------
(* The instance as a state machine *)

Self == [P |-> selfP, assemble_P |-> assemble_P, pc |-> selfpc, mats |-> mats]

\* A hook ran: the instance, the log and the outcome it leaves.
Ran(op, args, r) ==
    /\ selfP' = r.S.P
    /\ assemble_P' = r.S.assemble_P
    /\ selfpc' = r.S.pc
    /\ mats' = r.S.mats
    /\ calls' = r.calls
    /\ last' = [op |-> op, args |-> args, exc |-> r.exc]
    /\ r.exc = "ExternalError" => nfail < MaxFailures
    /\ nfail' = IF r.exc = "ExternalError" THEN nfail + 1 ELSE nfail

NoMats == [i \in {} |-> i]

Init ==
    /\ cls \in Classes
    /\ options = OptionDB
    /\ selfP = <<>>
    /\ assemble_P = <<>>
    /\ selfpc = <<>>
    /\ mats = NoMats
    /\ ninit = 0
    /\ nfail = 0
    /\ last = [op |-> "__init__", args |-> <<>>, exc |-> "none"]
    /\ calls = <<>>
    /\ linit = "never"
    /\ passed = FALSE
    /\ completed = FALSE
    /\ f = FValue
    /\ bc = DirichletBC(<<"Function", "f">>)
    /\ u = 0
    /\ bclast = [call |-> "DirichletBC", given |-> FValue, solved |-> FALSE]

Initialize ==
    /\ ninit < MaxInits
    /\ \E pc \in OuterPCs, fail \in FailPoints :
          LET r == initialize(Self, cls, options, pc, ninit + 1, fail)
          IN  /\ Ran("initialize", <<pc>>, r)
              /\ linit' = r.exc
              /\ passed' = (passed \/ r.exc # "ValueError")
              /\ completed' = (completed \/ r.exc = "none")
    /\ ninit' = ninit + 1
    /\ UNCHANGED <<cls, options, bcvars>>

Update ==
    /\ assemble_P # <<>> => mats[assemble_P[1].tensor].nasm < MaxAssemblies
    /\ \E fail \in BOOLEAN : Ran("update", <<fail>>, update(Self, fail))
    /\ UNCHANGED <<cls, options, ninit, linit, passed, completed, bcvars>>

Apply ==
    /\ \E x \in Vecs : \E y \in Vecs \ {x} :
          Ran("apply", <<x, y>>, apply(Self, "apply", x, y))
    /\ UNCHANGED <<cls, options, ninit, linit, passed, completed, bcvars>>

ApplyTranspose ==
    /\ \E x \in Vecs : \E y \in Vecs \ {x} :
          Ran("applyTranspose", <<x, y>>, apply(Self, "applyTranspose", x, y))
    /\ UNCHANGED <<cls, options, ninit, linit, passed, completed, bcvars>>

View ==
    /\ \E viewer \in Viewers : Ran("view", <<viewer>>, view(Self, viewer))
    /\ UNCHANGED <<cls, options, ninit, linit, passed, completed, bcvars>>

Next == Initialize \/ Update \/ Apply \/ ApplyTranspose \/ View

Spec == Init /\ [][Next]_vars

----------------------------------------------------------------------------
(* The boundary condition as a state machine *)

\* A call on the boundary condition: given is the value last given to it, at
\* construction or by set_value.
Called(call, b, given) ==
    /\ bc' = b
    /\ bclast' = [call |-> call, given |-> given, solved |-> FALSE]
    /\ UNCHANGED <<f, u, pcvars>>

Homogenize == Called("homogenize", homogenize(bc), bclast.given)

Restore == Called("restore", restore(bc), bclast.given)

SetValueBC == \E val \in Values : Called("set_value", set_value(bc, val), val)

Solve ==
    /\ u' = solve(bc, f)
    /\ bclast' = [bclast EXCEPT !.solved = TRUE]
    /\ UNCHANGED <<bc, f, pcvars>>

NextBC == Homogenize \/ Restore \/ SetValueBC \/ Solve

\* The boundary condition of the tests lives beside no preconditioner in
\* particular: the instance is a fresh AssembledPC throughout.
InitBC == Init /\ cls = "AssembledPC"

SpecBC == InitBC /\ [][NextBC]_vars

----------------------------------------------------------------------------
(* Vocabulary of the properties *)

HasCall(fn) == \E i \in 1..Len(calls) : calls[i].fn = fn

\* The calls named fn that the last hook made.
CallsOf(fn) == {calls[i] : i \in {j \in 1..Len(calls) : calls[j].fn = fn}}

\* Every call named fn1 comes before every call named fn2.
Before(fn1, fn2) ==
    \A i, j \in 1..Len(calls) :
        calls[i].fn = fn1 /\ calls[j].fn = fn2 => i < j

\* The last hook was initialize, and pc the outer PC it was given.
Initialized == last.op = "initialize"
ThePC == last.args[1]

IsMatrixFree(P) == P.type = "python"
IsOffDiagonalBlock(P) == P.type = "python" /\ P.ctx.on_diag = FALSE

\* Nothing was built by the last hook.
NothingBuilt ==
    /\ ~HasCall("form")
    /\ ~HasCall("allocate_matrix")
    /\ ~HasCall("create_assembly_callable")
    /\ ~HasCall("_assemble_P")
    /\ ~HasCall("PC.create")

----------------------------------------------------------------------------
(* C1: initialize on an off-diagonal matrix-free operator raises ValueError *)
(* before the form hook, allocation, assembly or solver creation run, and  *)
(* so no matrix and no inner solver an instance holds was ever built from  *)
(* an off-diagonal matrix-free operator.                                   *)
C1_OffDiagonalNeverAssembled ==
    /\ (Initialized /\ IsOffDiagonalBlock(ThePC.P)) =>
            (last.exc = "ValueError" /\ NothingBuilt)
    /\ \A i \in DOMAIN mats : ~IsOffDiagonalBlock(mats[i].builtFrom[1])
    /\ selfpc # <<>> => ~IsOffDiagonalBlock(selfpc[1].builtFrom[1])

\* An initialized instance is initialized again, on an off-diagonal block.
C1_Witness ==
    /\ Initialized /\ ThePC.type = "python" /\ IsOffDiagonalBlock(ThePC.P)
    /\ selfP # <<>> /\ selfpc # <<>>
    /\ last.exc = "ValueError"

(* C2: initialize on an outer PC that is not of type "python" raises       *)
(* ValueError whatever the operator, builds nothing and leaves self.P,     *)
(* self._assemble_P and self.pc as they were (unset on a fresh instance).  *)
C2_WrongKindLeavesInstance ==
    [][ (ninit' = ninit + 1 /\ last'.args[1].type # "python") =>
            /\ last'.exc = "ValueError"
            /\ NothingBuilt'
            /\ <<selfP, assemble_P, selfpc, mats>>' = <<selfP, assemble_P, selfpc, mats>>
            /\ (ninit = 0 => selfP' = <<>> /\ assemble_P' = <<>> /\ selfpc' = <<>>) ]_vars

\* A fresh instance was handed a PC of the wrong kind with an off-diagonal P.
C2_Witness ==
    /\ Initialized /\ ThePC.type # "python" /\ IsOffDiagonalBlock(ThePC.P)
    /\ last.exc = "ValueError"
    /\ selfP = <<>> /\ assemble_P = <<>> /\ selfpc = <<>>

(* C3: on an AssembledPC that does not override form, initialize on a      *)
(* "python" PC whose P is a matrix-free diagonal block gets from the form  *)
(* hook the pair (context.a, context.row_bcs), and passes that pair to     *)
(* allocate_matrix and create_assembly_callable.                           *)
C3_DefaultFormIsContextPair ==
    (/\ cls = "AssembledPC" /\ Initialized /\ ThePC.type = "python"
     /\ IsMatrixFree(ThePC.P) /\ ThePC.P.ctx.on_diag) =>
        LET pair == <<ThePC.P.ctx.a, ThePC.P.ctx.row_bcs>>
        IN  /\ CallsOf("form") = {Call("form", <<"none", pair>>)}
            /\ \A c \in CallsOf("allocate_matrix") : <<c.args[1], c.args[2]>> = pair
            /\ \A c \in CallsOf("create_assembly_callable") :
                   <<c.args[1], c.args[3]>> = pair

(* C4: initialize fails on its own account only for a wrong outer-PC kind  *)
(* and for an off-diagonal matrix-free block; otherwise (type "python", P  *)
(* explicit or a diagonal block), when no collaborator fails, it completes *)
(* and leaves an assembled matrix and a set-up inner solver.  Stated for   *)
(* the classes that have a form: all but the abstract ExplicitSchurPC.     *)
C4_OnlyTwoValidationFailures ==
    (/\ cls # "ExplicitSchurPC" /\ Initialized /\ ThePC.type = "python"
     /\ ~IsOffDiagonalBlock(ThePC.P) /\ last.exc # "ExternalError") =>
        /\ last.exc = "none"
        /\ selfP # <<>> /\ mats[selfP[1]].nasm >= 1
        /\ selfpc # <<>> /\ selfpc[1].setUp

(* C5: after an initialize that completed, an update runs the assembly     *)
(* once more into the matrix self.P and changes neither self.P nor the     *)
(* inner solver; apply and applyTranspose forward (x, y) to self.pc; and   *)
(* until the next initialize self.P, the thunk's tensor and self.pc are    *)
(* the objects that initialize made.                                       *)
C5_SolverKeptAcrossUpdates ==
    /\ [](linit = "none" =>
            /\ selfP = <<ninit>> /\ assemble_P # <<>> /\ selfpc # <<>>
            /\ assemble_P[1].tensor = ninit
            /\ selfpc[1].id = ninit /\ selfpc[1].Pmat = selfP
            /\ (last.op \in {"apply", "applyTranspose"} =>
                   /\ last.exc = "none"
                   /\ calls = <<Call("PC." \o last.op,
                                     <<selfpc[1].id, last.args[1], last.args[2]>>)>>))
    /\ [][ (linit = "none" /\ ninit' = ninit) =>
             /\ selfP' = selfP /\ selfpc' = selfpc /\ assemble_P' = assemble_P
             /\ (last'.op = "update" /\ last'.exc = "none") =>
                    mats' = [mats EXCEPT ![selfP[1]].nasm = @ + 1]
             /\ (last'.op # "update" \/ last'.exc # "none") => mats' = mats ]_<<pcvars>>

\* An update and then an apply on an initialized instance.
C5_Witness ==
    /\ linit = "none" /\ last.op = "apply" /\ last.exc = "none"
    /\ mats[selfP[1]].nasm = 2 /\ selfpc[1].id = 1

(* C6: an initialize that completed leaves on the assembled matrix the     *)
(* null space of P, and the transpose null space of P when P has one       *)
(* (handle not 0) and none when P has none; both are attached before the   *)
(* inner solver is given the matrix.                                       *)
C6_NullSpacesTransferred ==
    (Initialized /\ last.exc = "none") =>
        LET P == ThePC.P
            Pmat == mats[selfP[1]]
        IN  /\ Pmat.nullsp = P.nullsp
            /\ CallsOf("setNullSpace") = {Call("setNullSpace", <<selfP[1], P.nullsp>>)}
            /\ P.tnullsp # 0 =>
                  /\ Pmat.tnullsp = P.tnullsp
                  /\ CallsOf("setTransposeNullSpace") =
                        {Call("setTransposeNullSpace", <<selfP[1], P.tnullsp>>)}
            /\ P.tnullsp = 0 =>
                  /\ Pmat.tnullsp = 0
                  /\ ~HasCall("setTransposeNullSpace")
            /\ CallsOf("setOperators") =
                  {Call("setOperators", <<selfpc[1].id, selfP[1], selfP[1]>>)}
            /\ Before("setNullSpace", "setOperators")
            /\ Before("setTransposeNullSpace", "setOperators")

\* The second initialize of an instance completed on an operator with both
\* null spaces.
C6_Witness ==
    /\ Initialized /\ last.exc = "none" /\ ninit = 2
    /\ ThePC.P.nullsp = 1 /\ ThePC.P.tnullsp = 2
    /\ mats[selfP[1]].tnullsp = 2

\* The prefix and the matrix type the claim expects of the last initialize.
ClaimedPrefix ==
    ThePC.prefix \o (IF cls \in {"ExplicitSchurPC", "UserSchurPC"} THEN "schur_"
                     ELSE "assembled_")
ClaimedMatType ==
    LET set == {e \in options : e[1] = ClaimedPrefix \o "mat_type"}
    IN  IF set = {} THEN "aij" ELSE (CHOOSE e \in set : TRUE)[2]

(* C7: initialize works under one prefix, the outer PC's options prefix    *)
(* followed by the class's _prefix ("assembled_", "schur_"): mat_type is   *)
(* read under it (default "aij"), it is passed to allocate_matrix and set  *)
(* on the inner solver, and the mat_type read goes to both allocate_matrix *)
(* and create_assembly_callable.                                           *)
C7_OneDerivedPrefix ==
    Initialized =>
        /\ \A c \in CallsOf("getString") :
               c.args = <<ClaimedPrefix \o "mat_type", "aij">>
        /\ \A c \in CallsOf("allocate_matrix") :
               c.args[4] = ClaimedMatType /\ c.args[5] = ClaimedPrefix
        /\ \A c \in CallsOf("create_assembly_callable") :
               c.args[5] = ClaimedMatType
        /\ \A c \in CallsOf("setOptionsPrefix") : c.args[2] = ClaimedPrefix
        /\ HasCall("form") => HasCall("getString")
        /\ last.exc = "none" =>
               /\ mats[selfP[1]].mat_type = ClaimedMatType
               /\ mats[selfP[1]].options_prefix = ClaimedPrefix
               /\ assemble_P[1].mat_type = ClaimedMatType
               /\ selfpc[1].prefix = ClaimedPrefix

\* A subclass of ExplicitSchurPC initialized under "fieldsplit_1_", where the
\* database sets mat_type.
C7_Witness ==
    /\ Initialized /\ last.exc = "none" /\ cls = "UserSchurPC"
    /\ selfpc[1].prefix = "fieldsplit_1_schur_"
    /\ mats[selfP[1]].mat_type = "dense"

(* C8: on an ExplicitSchurPC whose form is not overridden every initialize *)
(* fails, with NotImplementedError once the two checks have passed, and    *)
(* the instance never has a matrix or an inner solver; on a subclass that  *)
(* overrides form the two checks still raise ValueError before form is     *)
(* called, and otherwise initialize goes on with the subclass's pair.      *)
C8_AbstractFormHook ==
    /\ cls = "ExplicitSchurPC" =>
          /\ selfP = <<>> /\ assemble_P = <<>> /\ selfpc = <<>>
          /\ Initialized =>
                IF ThePC.type # "python" \/ IsOffDiagonalBlock(ThePC.P)
                THEN last.exc = "ValueError" /\ NothingBuilt
                ELSE /\ last.exc = "NotImplementedError"
                     /\ ~HasCall("allocate_matrix") /\ ~HasCall("PC.create")
    /\ (cls = "UserSchurPC" /\ Initialized) =>
          IF ThePC.type # "python" \/ IsOffDiagonalBlock(ThePC.P)
          THEN last.exc = "ValueError" /\ NothingBuilt
          ELSE /\ CallsOf("form") = {Call("form", <<"none", UserForm(cls)>>)}
               /\ last.exc \in {"none", "ExternalError"}
               /\ last.exc = "none" =>
                      /\ <<mats[selfP[1]].a, mats[selfP[1]].bcs>> = UserForm(cls)
                      /\ selfpc # <<>>

\* An ExplicitSchurPC was initialized on a diagonal block.
C8_Witness ==
    /\ cls = "ExplicitSchurPC" /\ Initialized /\ ThePC.type = "python"
    /\ IsMatrixFree(ThePC.P) /\ ThePC.P.ctx.on_diag
    /\ last.exc = "NotImplementedError"

(* C10, as stated: update, apply and applyTranspose succeed only after an  *)
(* initialize that ran to completion.                                      *)
C10_UsableOnlyAfterCompletion ==
    (last.op \in {"update", "apply", "applyTranspose"} /\ last.exc = "none") =>
        completed

(* C10, amended: apply and applyTranspose succeed only after an initialize *)
(* that ran to completion, update only after an initialize that got past   *)
(* the validation checks and made the assembly thunk (whether or not it    *)
(* then completed).  An instance that was never initialized, or whose      *)
(* initialize calls all failed a validation check, has no thunk and no     *)
(* inner solver; without a thunk update raises, without a solver apply and *)
(* applyTranspose raise, and view succeeds and leaves the solver out.      *)
C10_HooksNeedInitialize ==
    /\ (last.op \in {"apply", "applyTranspose"} /\ last.exc = "none") => completed
    /\ (last.op = "update" /\ last.exc = "none") => (passed /\ assemble_P # <<>>)
    /\ ~passed => (selfP = <<>> /\ assemble_P = <<>> /\ selfpc = <<>>)
    /\ (last.op = "update" /\ assemble_P = <<>>) =>
          (last.exc = "AttributeError" /\ calls = <<>>)
    /\ (last.op \in {"apply", "applyTranspose"} /\ selfpc = <<>>) =>
          (last.exc = "AttributeError" /\ calls = <<>>)
    /\ (last.op = "view" /\ selfpc = <<>>) =>
          (last.exc = "none" /\ calls = <<Call("PCBase.view", last.args)>>)

\* update on an instance whose two initialize calls failed validation.
C10_Witness ==
    /\ ~passed /\ ninit = 2 /\ linit = "ValueError"
    /\ last.op = "update" /\ last.exc = "AttributeError"

(* C9: for a DirichletBC built from a Function f of value 10, homogenize   *)
(* makes a solve impose 0 and leaves f at 10; set_value(v) makes a solve   *)
(* impose v; restore makes a solve impose again the value last given to    *)
(* the condition, so that homogenize then restore is a round trip (to 10   *)
(* when set_value was never called).                                       *)
C9_BoundaryValueFollowsLastCall ==
    /\ f = FValue
    /\ bclast.solved =>
          u = (CASE bclast.call = "homogenize" -> 0
                 [] bclast.call = "DirichletBC" -> FValue
                 [] OTHER -> bclast.given)

\* homogenize, solve, restore, solve on the condition as built: u is 10 again.
C9_Witness ==
    /\ bclast.call = "restore" /\ bclast.solved /\ bclast.given = FValue
    /\ bc.function_arg = <<"Function", "f">> /\ u = FValue

====
